---- MODULE Spec2Model ----
(***************************************************************************)
(* The two route files of the ChamaControl back end:                       *)
(*   src/backend/routes/index.js  ("index":   the outbound URL is built by  *)
(*                                  string interpolation)                  *)
(*   src/unnamed/part_000         ("part000": the outbound parameters are   *)
(*                                  handed to axios as an object)          *)
(* Both mount GET /hello and GET /noticias.  A request is served by one of  *)
(* the two files.  The /noticias handler is an async function: it runs up   *)
(* to `await axios.get(...)`, is suspended, and is resumed when the         *)
(* outbound call settles.                                                   *)
(*                                                                         *)
(* Strings are sequences of tokens.  A token is one character ("x", "&",    *)
(* "#", "+", " ", "="), one percent-escape ("%26") or one word that holds   *)
(* no special character ("country", "br", "k1").                            *)
(***************************************************************************)
EXTENDS Naturals, Sequences, FiniteSets

VARIABLES env, reqs

vars == <<env, reqs>>

\* ---------------------------------------------------------------- bounds
\* Longest `to` query value a caller sends.
MaxLen == 1

\* The requests (connections) that may overlap.
Reqs == {"r1", "r2"}

\* The characters a caller may put in `to`: an ordinary one, the "+" of a
\* time-zone offset, and the fragment delimiter.
ToChars == {"x", "+", "#"}

\* ---------------------------------------------------------------- values
\* A JavaScript value that is either undefined or a string.
Undefined == [def |-> FALSE, s |-> <<>>]
Str(s) == [def |-> TRUE, s |-> s]

\* JavaScript truthiness of an undefined-or-string value.
Truthy(v) == v.def /\ v.s # <<>>

RECURSIVE StringsUpTo(_)
StringsUpTo(n) ==
  IF n = 0 THEN {<<>>}
  ELSE LET shorter == StringsUpTo(n - 1)
       IN  shorter \cup {Append(s, c) : s \in shorter, c \in ToChars}

\* req.query.to: absent, or the decoded value the caller sent.
ToValues == {Undefined} \cup {Str(s) : s \in StringsUpTo(MaxLen)}

\* process.env.GNEWS_API_KEY: unset, empty, or one of two credentials.
Keys == {Undefined, Str(<<>>), Str(<<"k1">>), Str(<<"k2">>)}

Files == {"index", "part000"}

\* The fixed search expression ("queimadas AND (...) NOT (...)"), shortened to
\* word, space, word: it holds spaces and no "&", "#", "+" or "=".
QUERY == <<"queimadas", " ", "AND">>

\* Bodies are sequences of tokens too.  {error: 'Falha ao buscar noticias externas.'}
ErrorBody == <<"error", "Falha ao buscar noticias externas.">>
HelloBody == <<"Hello world">>
NoBody == <<>>

CacheHeaders ==
  { <<"Cache-Control", "no-cache, no-store, must-revalidate">>,
    <<"Pragma", "no-cache">>,
    <<"Expires", "0">> }

\* What the outbound call may settle with.
UpstreamBodies == {<<"articles1">>, <<"articles2">>}
UpstreamErrorPayload == <<"gnews-error-payload">>

\* No outbound call has settled yet.
NotSettled == [kind |-> "none", status |-> 0, data |-> NoBody]

Fulfilled(d) == [kind |-> "ok", status |-> 200, data |-> d]
Outcomes ==
  {Fulfilled(d) : d \in UpstreamBodies}
    \cup { [kind |-> "response", status |-> 403, data |-> UpstreamErrorPayload],
           [kind |-> "request",  status |-> 0,   data |-> NoBody],
           [kind |-> "setup",    status |-> 0,   data |-> NoBody] }

\* ------------------------------------------------------- string helpers
RECURSIVE Before(_, _)
\* The part of s before the first d (all of s when d does not occur).
Before(s, d) ==
  IF s = <<>> \/ Head(s) = d THEN <<>>
  ELSE <<Head(s)>> \o Before(Tail(s), d)

RECURSIVE After(_, _)
\* The part of s after the first d (empty when d does not occur).
After(s, d) ==
  IF s = <<>> THEN <<>>
  ELSE IF Head(s) = d THEN Tail(s)
  ELSE After(Tail(s), d)

RECURSIVE SplitOn(_, _)
SplitOn(s, d) ==
  IF s = <<>> THEN << <<>> >>
  ELSE LET rest == SplitOn(Tail(s), d)
       IN  IF Head(s) = d THEN << <<>> >> \o rest
           ELSE << <<Head(s)>> \o rest[1] >> \o Tail(rest)

RECURSIVE Join(_, _)
Join(segs, d) ==
  IF segs = <<>> THEN <<>>
  ELSE IF Len(segs) = 1 THEN segs[1]
  ELSE segs[1] \o <<d>> \o Join(Tail(segs), d)

\* ------------------------------------------------- outbound query string
\* axios's encode() of one character of a parameter value:
\* encodeURIComponent, then %20 -> "+" (":", "$", "," are put back too).
AxiosEncodeChar(c) ==
  CASE c = " " -> "+"
    [] c = "&" -> "%26"
    [] c = "#" -> "%23"
    [] c = "+" -> "%2B"
    [] c = "=" -> "%3D"
    [] OTHER   -> c

AxiosEncode(s) == [i \in 1..Len(s) |-> AxiosEncodeChar(s[i])]

\* part_000: the params object, in insertion order.
Part000Params(apiKey, to) ==
  << <<"q", QUERY>>, <<"country", <<"br">>>>, <<"max", <<"10">>>>,
     <<"token", apiKey.s>> >>
    \o (IF Truthy(to) THEN << <<"to", to.s>> >> ELSE <<>>)

\* axios.get(baseUrl, {params}): key=encode(value) joined by "&".
AxiosSerialize(params) ==
  Join([i \in 1..Len(params) |->
          <<params[i][1], "=">> \o AxiosEncode(params[i][2])], "&")

\* index.js: let dateFilter = lastPublishedAt ? `&to=${lastPublishedAt}` : ""
dateFilter(to) == IF Truthy(to) THEN <<"&", "to", "=">> \o to.s ELSE <<>>

\* index.js: the template literal after "search?".
IndexUrl(apiKey, to) ==
  <<"q", "=">> \o QUERY \o <<"&", "country", "=", "br", "&", "max", "=", "10">>
    \o dateFilter(to) \o <<"&", "token", "=">> \o apiKey.s

\* axios.get(url) with a ready-made URL: the URL parser drops the fragment
\* (everything from the first "#") and percent-encodes spaces; "&", "+" and
\* "=" are left as they are.
UrlQueryOnWire(url) ==
  LET q == Before(url, "#")
  IN  [i \in 1..Len(q) |-> IF q[i] = " " THEN "%20" ELSE q[i]]

\* The query string that leaves the process.
OutboundQuery(file, apiKey, to) ==
  IF file = "index" THEN UrlQueryOnWire(IndexUrl(apiKey, to))
  ELSE AxiosSerialize(Part000Params(apiKey, to))

\* The receiving side: decoding of one token of a query string.
DecodeChar(c) ==
  CASE c = "+"   -> " "
    [] c = "%20" -> " "
    [] c = "%26" -> "&"
    [] c = "%23" -> "#"
    [] c = "%2B" -> "+"
    [] c = "%3D" -> "="
    [] OTHER     -> c

Decode(s) == [i \in 1..Len(s) |-> DecodeChar(s[i])]

\* The parameters the upstream service reads from a query string: split on
\* "&", each part split at its first "=", both sides decoded.
UpstreamParams(wire) ==
  LET segs == SplitOn(wire, "&")
  IN  { <<Decode(Before(segs[i], "=")), Decode(After(segs[i], "="))>> :
          i \in {j \in 1..Len(segs) : segs[j] # <<>>} }

\* ----------------------------------------------------- express response
NewRes == [status |-> 200, headers |-> {}, body |-> NoBody, sends |-> 0]

resSetHeader(res, name, value) ==
  [res EXCEPT !.headers = {h \in @ : h[1] # name} \cup {<<name, value>>}]

resStatus(res, code) == [res EXCEPT !.status = code]

\* res.json(body): Content-Type application/json, the body is written.
resJson(res, body) ==
  [resSetHeader(res, "Content-Type", "application/json")
     EXCEPT !.body = body, !.sends = @ + 1]

\* res.send(text): Content-Type text/html, the body is written.
resSend(res, text) ==
  [resSetHeader(res, "Content-Type", "text/html")
     EXCEPT !.body = text, !.sends = @ + 1]

\* ------------------------------------------------------------- requests
IdleReq ==
  [pc |-> "idle", route |-> "none", file |-> "index", to |-> Undefined,
   apiKey |-> Undefined, calls |-> <<>>, settled |-> NotSettled,
   res |-> NewRes, log |-> <<>>]

\* Mutant: only an unset credential is refused (apiKey === undefined).
MissingKeyUndefinedOnly(apiKey) == ~apiKey.def

\* if (!apiKey)
MissingKey(apiKey) == ~Truthy(apiKey)

\* error.message of what the try block raised.
Message(kind) ==
  CASE kind = "config"   -> "Chave da API de noticias nao configurada no servidor."
    [] kind = "response" -> "Request failed with status code 403"
    [] kind = "request"  -> "Network Error"
    [] kind = "setup"    -> "Invalid URL"
    [] OTHER             -> "Converting circular structure to JSON"

\* The console.error lines of the catch block.
CatchLog(file, kind) ==
  IF file = "index" THEN <<"Erro ao buscar noticias do GNews", Message(kind)>>
  ELSE <<"INICIO DO ERRO",
         CASE kind = "response" -> "Dados da Resposta"
           [] kind = "request"  -> "Nenhuma resposta recebida"
           [] OTHER             -> "Erro ao configurar o pedido",
         "FIM DO ERRO">>

\* Mutant: the upstream status is passed on (res.status(error.response.status)).
CatchBlockForwardsStatus(rq, err) ==
  [rq EXCEPT !.pc = "done",
             !.log = @ \o CatchLog(rq.file, err.kind),
             !.res = resJson(resStatus(@, IF err.kind = "response"
                                          THEN err.status ELSE 500), ErrorBody)]

\* Mutant: a failed call is tried once more.
CatchBlockRetries(rq, err) ==
  IF err.kind \in {"response", "request"} /\ Len(rq.calls) = 1
  THEN [rq EXCEPT !.pc = "awaiting", !.calls = Append(@, @[1])]
  ELSE [rq EXCEPT !.pc = "done",
                  !.log = @ \o CatchLog(rq.file, err.kind),
                  !.res = resJson(resStatus(@, 500), ErrorBody)]

\* Mutant: the error itself is sent (res.status(500).json(error)): its
\* message, and the request URL with the token in it.
CatchBlockSendsError(rq, err) ==
  [rq EXCEPT !.pc = "done",
             !.log = @ \o CatchLog(rq.file, err.kind),
             !.res = resJson(resStatus(@, 500),
                       <<"error", Message(err.kind)>>
                         \o (IF rq.calls = <<>> THEN <<>> ELSE rq.calls[1]))]

\* catch (error) { ...; res.status(500).json({error: '...'}) }
CatchBlock(rq, err) ==
  [rq EXCEPT !.pc = "done",
             !.log = @ \o CatchLog(rq.file, err.kind),
             !.res = resJson(resStatus(@, 500), ErrorBody)]

\* part_000 sets the three cache headers before the body; index.js sets none.
SetCacheHeaders(file, res) ==
  IF file = "part000"
  THEN resSetHeader(resSetHeader(resSetHeader(res,
         "Cache-Control", "no-cache, no-store, must-revalidate"),
         "Pragma", "no-cache"), "Expires", "0")
  ELSE res

\* Mutant: the `await` is missing, so the response is written at once from
\* the pending promise (response.data is undefined) while the call is out.
BeforeAwaitNoAwait(rq) ==
  IF MissingKey(rq.apiKey)
  THEN CatchBlock(rq, [kind |-> "config", status |-> 0, data |-> NoBody])
  ELSE [rq EXCEPT !.pc = "awaiting",
                  !.calls = Append(@, OutboundQuery(rq.file, rq.apiKey, rq.to)),
                  !.res = resJson(SetCacheHeaders(rq.file, @), NoBody)]

\* The handler from its first line to `await axios.get(...)`.
BeforeAwait(rq) ==
  IF MissingKey(rq.apiKey)
  THEN CatchBlock(rq, [kind |-> "config", status |-> 0, data |-> NoBody])
  ELSE [rq EXCEPT !.pc = "awaiting",
                  !.calls = Append(@, OutboundQuery(rq.file, rq.apiKey, rq.to))]

\* The handler from the settled `await` to its end.
AfterAwait(rq, out) ==
  IF out.kind = "ok"
  THEN [rq EXCEPT !.pc = "done",
                  !.res = resJson(SetCacheHeaders(rq.file, @), out.data)]
  ELSE CatchBlock(rq, out)

\* res.json(response.data) raises before anything is written: the headers
\* set so far stay, and control passes to the catch block.
AfterAwaitJsonThrows(rq, out) ==
  CatchBlock([rq EXCEPT !.res = SetCacheHeaders(rq.file, @)],
             [kind |-> "json", status |-> 0, data |-> NoBody])

\* -------------------------------------------------------------- actions
Init ==
  /\ env \in Keys
  /\ reqs = [r \in Reqs |-> IdleReq]

\* The process environment is (re)configured.
SetEnv(k) ==
  /\ k # env
  /\ env' = k
  /\ UNCHANGED reqs

\* Mutant: /hello sits behind the credential check as well.
HelloHandlerBehindKey(rq) ==
  IF Truthy(env)
  THEN [rq EXCEPT !.pc = "done", !.res = resSend(@, HelloBody)]
  ELSE [rq EXCEPT !.pc = "done", !.res = resJson(resStatus(@, 500), ErrorBody)]

\* (req, res) => { res.send('Hello world') }
HelloHandler(rq) == [rq EXCEPT !.pc = "done", !.res = resSend(@, HelloBody)]

\* GET /hello arrives and is answered in one step.
Hello(r, f) ==
  /\ reqs[r].pc = "idle"
  /\ reqs' = [reqs EXCEPT ![r] =
       HelloHandler([@ EXCEPT !.route = "hello", !.file = f])]
  /\ UNCHANGED env

\* GET /noticias arrives and the handler runs up to its await.
NoticiasStart(r, f, to) ==
  /\ reqs[r].pc = "idle"
  /\ reqs' = [reqs EXCEPT ![r] =
       BeforeAwait([@ EXCEPT !.route = "noticias", !.file = f, !.to = to,
                             !.apiKey = env])]
  /\ UNCHANGED env

\* Mutant: `res` is kept in a module-level variable, which a request that
\* arrived meanwhile has overwritten: the answer goes to that request.
NoticiasSettleSharedRes(r, out) ==
  /\ reqs[r].pc = "awaiting"
  /\ LET later == {o \in Reqs \ {r} : reqs[o].pc = "awaiting"}
         mine  == AfterAwait([reqs[r] EXCEPT !.settled = out], out)
     IN  IF later = {}
         THEN reqs' = [reqs EXCEPT ![r] = mine]
         ELSE LET o == CHOOSE x \in later : TRUE
              IN  reqs' = [reqs EXCEPT
                     ![r] = [@ EXCEPT !.pc = "done", !.settled = out,
                                      !.log = mine.log],
                     ![o] = [@ EXCEPT !.res = [mine.res EXCEPT
                                                 !.sends = reqs[o].res.sends + 1]]]
  /\ UNCHANGED env

\* The outbound call settles and the handler runs to its end.
NoticiasSettle(r, out) ==
  /\ reqs[r].pc = "awaiting"
  /\ reqs' = [reqs EXCEPT ![r] = AfterAwait([@ EXCEPT !.settled = out], out)]
  /\ UNCHANGED env

\* The outbound call succeeds and res.json(response.data) raises.
NoticiasJsonThrows(r, out) ==
  /\ reqs[r].pc = "awaiting"
  /\ out.kind = "ok"
  /\ reqs' = [reqs EXCEPT ![r] =
       AfterAwaitJsonThrows([@ EXCEPT !.settled = [out EXCEPT !.kind = "json"]], out)]
  /\ UNCHANGED env

Next ==
  \/ \E k \in Keys : SetEnv(k)
  \/ \E r \in Reqs, f \in Files : Hello(r, f)
  \/ \E r \in Reqs, f \in Files, to \in ToValues : NoticiasStart(r, f, to)
  \/ \E r \in Reqs, out \in Outcomes : NoticiasSettle(r, out)

Spec == Init /\ [][Next]_vars

NextFault ==
  \/ Next
  \/ \E r \in Reqs, out \in Outcomes : NoticiasJsonThrows(r, out)

SpecFault == Init /\ [][NextFault]_vars

\* ================================================================ claims
IsNoticias(r) == reqs[r].route = "noticias"
IsDone(r) == reqs[r].pc = "done"
KeyUnsetOrEmpty(k) == k = Undefined \/ k.s = <<>>
FailureKinds == {"response", "request", "setup"}

\* A /noticias request that failed for one of the four listed causes.
FailedNoticias(r) ==
  /\ IsNoticias(r) /\ IsDone(r)
  /\ KeyUnsetOrEmpty(reqs[r].apiKey) \/ reqs[r].settled.kind \in FailureKinds

\* C1: a /noticias request handled while GNEWS_API_KEY is unset or empty is
\* answered 500 with the fixed error body, and no outbound call is made for
\* it at any point.
C1_NoKeyFailsWithoutCall ==
  \A r \in Reqs :
    (IsNoticias(r) /\ KeyUnsetOrEmpty(reqs[r].apiKey)) =>
      /\ IsDone(r)
      /\ reqs[r].res.status = 500
      /\ reqs[r].res.body = ErrorBody
      /\ reqs[r].res.sends = 1
      /\ reqs[r].calls = <<>>

C1_Witness ==
  \E r1, r2 \in Reqs :
    /\ IsNoticias(r1) /\ IsDone(r1) /\ reqs[r1].apiKey = Undefined
    /\ IsNoticias(r2) /\ IsDone(r2) /\ reqs[r2].apiKey = Str(<<>>)
    /\ reqs[r1].file # reqs[r2].file

\* C2: every failed /noticias request, whatever the cause (credential
\* missing, upstream error status, no response, request not constructed),
\* gets the same response: status 500 with the fixed error body.
C2_FailuresLookAlike ==
  \A r1, r2 \in Reqs :
    (FailedNoticias(r1) /\ FailedNoticias(r2)) =>
      /\ reqs[r1].res.status = 500
      /\ reqs[r1].res.body = ErrorBody
      /\ reqs[r1].res = reqs[r2].res

C2_Witness ==
  \E r1, r2 \in Reqs :
    /\ FailedNoticias(r1) /\ reqs[r1].settled.kind = "response"
    /\ FailedNoticias(r2) /\ reqs[r2].settled.kind = "request"
    /\ reqs[r1].file = "part000" /\ reqs[r2].file = "part000"
    /\ reqs[r1].log # reqs[r2].log

\* C3: a /noticias request whose upstream call succeeds is answered with the
\* upstream body unmodified and with the three cache-disabling headers.
C3_SuccessCarriesCacheHeaders ==
  \A r \in Reqs :
    (IsNoticias(r) /\ IsDone(r) /\ reqs[r].settled.kind = "ok") =>
      /\ reqs[r].res.status = 200
      /\ reqs[r].res.body = reqs[r].settled.data
      /\ CacheHeaders \subseteq reqs[r].res.headers

\* The `to` parameters the upstream service reads from the call of request r.
ToParamsSent(r) ==
  {p \in UpstreamParams(reqs[r].calls[1]) : p[1] = <<"to">>}

\* C4: when the request carries a non-empty `to`, the outbound request has a
\* `to` parameter equal to it; when it carries none or an empty one, the
\* outbound request has no `to` parameter at all.
C4_ToForwardedOrOmitted ==
  \A r \in Reqs :
    reqs[r].calls # <<>> =>
      IF Truthy(reqs[r].to)
      THEN ToParamsSent(r) = { << <<"to">>, reqs[r].to.s >> }
      ELSE ToParamsSent(r) = {}

\* C5: at most one outbound call is made per /noticias request: exactly one
\* once a request with the credential configured is being handled, and no
\* second one after a failure.
C5_AtMostOneOutboundCall ==
  \A r \in Reqs :
    /\ Len(reqs[r].calls) <= 1
    /\ (IsNoticias(r) /\ ~KeyUnsetOrEmpty(reqs[r].apiKey)) =>
         Len(reqs[r].calls) = 1

C5_Witness ==
  \E r \in Reqs :
    /\ IsNoticias(r) /\ IsDone(r)
    /\ reqs[r].settled.kind \in FailureKinds
    /\ Len(reqs[r].calls) = 1

\* Tokens that must not reach the caller of a failed request.
SecretTokens ==
  {"k1", "k2", "gnews-error-payload"}
    \cup {Message(k) : k \in FailureKinds \cup {"config", "json"}}

\* C6: the credential never reaches the caller: two requests that differ only
\* in the (non-empty) credential and get the same upstream outcome get the
\* same response, and a failure response holds neither the credential nor
\* the upstream error payload nor the internal error message.
C6_CredentialNeverReachesCaller ==
  /\ \A r1, r2 \in Reqs :
       ( /\ IsNoticias(r1) /\ IsDone(r1) /\ IsNoticias(r2) /\ IsDone(r2)
         /\ Truthy(reqs[r1].apiKey) /\ Truthy(reqs[r2].apiKey)
         /\ reqs[r1].file = reqs[r2].file /\ reqs[r1].to = reqs[r2].to
         /\ reqs[r1].settled = reqs[r2].settled )
       => reqs[r1].res = reqs[r2].res
  /\ \A r \in Reqs :
       FailedNoticias(r) =>
         /\ \A i \in 1..Len(reqs[r].res.body) :
              reqs[r].res.body[i] \notin SecretTokens
         /\ \A h \in reqs[r].res.headers : h[2] \notin SecretTokens

C6_Witness ==
  \E r1, r2 \in Reqs :
    /\ FailedNoticias(r1) /\ FailedNoticias(r2)
    /\ reqs[r1].apiKey = Str(<<"k1">>) /\ reqs[r2].apiKey = Str(<<"k2">>)
    /\ reqs[r1].file = reqs[r2].file /\ reqs[r1].to = reqs[r2].to
    /\ reqs[r1].settled = reqs[r2].settled
    /\ reqs[r1].settled.kind = "response"
    /\ reqs[r1].calls # reqs[r2].calls

\* C7: for the same request, credential and upstream outcome, the two route
\* files send the same upstream parameters and return the same response.
C7_RouteFilesEquivalent ==
  \A r1, r2 \in Reqs :
    ( /\ IsNoticias(r1) /\ IsNoticias(r2)
      /\ reqs[r1].file # reqs[r2].file
      /\ reqs[r1].to = reqs[r2].to /\ reqs[r1].apiKey = reqs[r2].apiKey )
    => /\ Len(reqs[r1].calls) = Len(reqs[r2].calls)
       /\ reqs[r1].calls # <<>> =>
            UpstreamParams(reqs[r1].calls[1]) = UpstreamParams(reqs[r2].calls[1])
       /\ (IsDone(r1) /\ IsDone(r2) /\ reqs[r1].settled = reqs[r2].settled)
            => reqs[r1].res = reqs[r2].res

\* What a request's handling starts from and what it produces.
Inputs(r) ==
  <<reqs[r].route, reqs[r].file, reqs[r].to, reqs[r].apiKey, reqs[r].settled>>
Outputs(r) == <<reqs[r].pc, reqs[r].calls, reqs[r].res, reqs[r].log>>

\* Requests with the same inputs have the same outbound call and response.
DeterminedByOwnInputs ==
  \A r1, r2 \in Reqs : Inputs(r1) = Inputs(r2) => Outputs(r1) = Outputs(r2)

\* C8: overlapping requests are independent: a step of one handler leaves
\* every other request as it was, and what a request sends out and answers
\* depends only on its own route file, `to`, credential and upstream outcome.
C8_RequestsIndependent ==
  [][ /\ \A r1, r2 \in Reqs :
           (reqs'[r1] # reqs[r1] /\ reqs'[r2] # reqs[r2]) => r1 = r2
      /\ DeterminedByOwnInputs' ]_vars

C8_Witness ==
  \E r1, r2 \in Reqs :
    /\ r1 # r2
    /\ IsNoticias(r1) /\ IsDone(r1) /\ reqs[r1].settled.kind = "ok"
    /\ IsNoticias(r2) /\ reqs[r2].pc = "awaiting"
    /\ reqs[r1].to # reqs[r2].to

\* C9: GET /hello is always answered 200 with the body 'Hello world' and
\* makes no outbound call, whatever the credential and the other requests.
C9_HelloAlwaysAnswers ==
  \A r \in Reqs :
    reqs[r].route = "hello" =>
      /\ IsDone(r)
      /\ reqs[r].res.status = 200
      /\ reqs[r].res.body = HelloBody
      /\ reqs[r].res.sends = 1
      /\ reqs[r].calls = <<>>

C9_Witness ==
  \E r, o \in Reqs :
    /\ reqs[r].route = "hello" /\ IsDone(r)
    /\ IsNoticias(o) /\ reqs[o].pc = "awaiting"
    /\ KeyUnsetOrEmpty(env)

\* C10: a /noticias request gets no response while its outbound call is
\* outstanding and exactly one once its handling has finished, also when an
\* error is raised after the cache headers were set and before the body.
C10_ExactlyOneResponse ==
  \A r \in Reqs :
    /\ reqs[r].pc \in {"idle", "awaiting"} => reqs[r].res.sends = 0
    /\ IsDone(r) => reqs[r].res.sends = 1

C10_Witness ==
  \E r \in Reqs :
    /\ IsNoticias(r) /\ IsDone(r) /\ reqs[r].settled.kind = "json"
    /\ CacheHeaders \subseteq reqs[r].res.headers
    /\ reqs[r].res.status = 500 /\ reqs[r].res.body = ErrorBody
    /\ reqs[r].res.sends = 1

====
